---- MODULE Spec2Model ----
(***************************************************************************)
(* Incremental recomputation engine of the indicator wrappers of           *)
(* AutoTradingKit-Pro (atklip/controls/momentum/rsi.py and its siblings    *)
(* cci.py, stochrsi.py, kc.py; "macd new.py" for the inline variant).      *)
(*                                                                         *)
(* Spec      the generic engine as written in RSI: candle-source events    *)
(*           are handed to the worker pool (xxx_worker), the pool runs the *)
(*           handlers (fisrt_gen_data, add_historic, add, update), a       *)
(*           handler starts a HeavyProcess job over a snapshot of the      *)
(*           candle table, the job's completion runs a callback_xxx that   *)
(*           merges the result into df / xdata / data and emits a signal.  *)
(*                                                                         *)
(* The candle source (atklip.controls.candle), the worker pool             *)
(* (ThreadPoolExecutor_global) and HeavyProcess are not part of the        *)
(* sources at hand; they follow the contracts of spec.md sections 2, 4.3   *)
(* and 6.                                                                  *)
(***************************************************************************)
EXTENDS Integers, Sequences, FiniteSets, TLC

(***************************************************************************)
(* Bounds of the model.                                                    *)
(***************************************************************************)
\* number of candle-source events (reset, append, re-delivered append,
\* mutate-last, historic-prepend) and of rebinding calls in one behaviour
MaxEvents == 3

\* row counts of the table the candle source holds at construction; 1 is
\* shorter than the warm-up of the calculation
InitLens == {1, 3}

\* row counts of one historic backfill
HistoricLens == {1, 2}

\* close prices a candle row can take
Closes == {0, 1}

\* values of the rounded indicator channel
DataLevels == 3

\* number of change_source / change_input calls in one behaviour
MaxRebinds == 1

\* row count of the table of the second candle source
OtherLen == 2

\* connections of one signal of a source to one slot of the engine
MaxConnections == 2

\* largest period of a binding (SpecWindow)
MaxPeriod == 4

(***************************************************************************)
(* Indicator parameters (dict_ta_params).                                  *)
(***************************************************************************)
VARIABLE dict_ta_params     \* the parameters the engine was constructed with:
                            \* the period, and whether they hold a "drift" entry

\* the period of the engines of Spec
length == 1

\* the period rsi() and cci() take in place of one that is not positive (14
\* in the source; 1 here, as the candle tables are a few rows long)
DefaultLength == 1

\* self.length = dict_ta_params["length"]
self_length == dict_ta_params.length

\* self.drift = dict_ta_params.get("drift", 1): the entry, when given, is 1
drift == 1

\* self.offset = dict_ta_params.get("drift", 0)
offset == IF dict_ta_params.has_drift THEN drift ELSE 0

\* v_pos_default(x, default);  int(length) if length and length > 0 else 14
v_pos_default(x, default) == IF x > 0 THEN x ELSE default

\* rsi(): length = v_pos_default(length, 14)
rsi_length == v_pos_default(self_length, DefaultLength)

(***************************************************************************)
(* Sequence helpers (pandas / numpy slicing).                              *)
(***************************************************************************)
\* DataFrame.tail(n), n >= 0
Tail_(s, n) == IF n >= Len(s) THEN s ELSE SubSeq(s, Len(s) - n + 1, Len(s))

\* the cut mutated: the slice is the whole table
HeadAllBut_Whole(s, k) == s

\* the cut mutated: head(-0) keeps every row
HeadAllBut_ZeroKeepsAll(s, k) == IF k >= Len(s) THEN <<>> ELSE SubSeq(s, 1, Len(s) - k)

\* DataFrame.head(-k), k >= 0: all rows but the last k; head(-0) is head(0)
HeadAllBut(s, k) == IF k = 0 \/ k >= Len(s) THEN <<>> ELSE SubSeq(s, 1, Len(s) - k)

RemoveAt(s, i) == SubSeq(s, 1, i - 1) \o SubSeq(s, i + 1, Len(s))

Last(s) == s[Len(s)]

\* df["index"].to_numpy(), df["data"].to_numpy()
IndexOf(rows) == [i \in 1..Len(rows) |-> rows[i].index]
DataOf(rows) == [i \in 1..Len(rows) |-> rows[i].data]

StrictlyIncreasing(s) == \A i \in 1..(Len(s) - 1) : s[i] < s[i + 1]

(***************************************************************************)
(* Calculation function.                                                   *)
(***************************************************************************)
\* v_series(close, length + 1): the series, or None below the minimum size
v_series_ok(df) == Len(df) >= rsi_length + 1

\* number of leading rows of the slice for which rsi() yields NaN:
\* diff(drift) leaves drift NaNs, the moving average of period `length`
\* needs `length` observations, shift(offset) adds offset NaNs
Warmup == drift + rsi_length - 1 + offset

RECURSIVE SumClose(_, _)
SumClose(df, k) == IF k = 0 THEN 0 ELSE df[k].close + SumClose(df, k - 1)

\* value of the smoothed channel at row k of the slice: a function of all the
\* closes of the slice up to row k (the formula itself is out of scope)
rsi(df, k) == SumClose(df, k) % DataLevels

\* the calculation mutated: the index column is the head of df["index"]
calculate_IndexHead(df) ==
    IF ~v_series_ok(df)
    THEN [ok |-> FALSE, rows |-> <<>>]
    ELSE [ok |-> TRUE,
          rows |-> [i \in 1..(Len(df) - Warmup) |->
                       [index |-> df[i].index,
                        data |-> rsi(df, i + Warmup)]]]

\* RSI.calculate: a fault when rsi() returns None (None.dropna() raises),
\* otherwise the rows left after dropna(), keyed by df["index"].tail(_len)
calculate(df) ==
    IF ~v_series_ok(df)
    THEN [ok |-> FALSE, rows |-> <<>>]
    ELSE [ok |-> TRUE,
          rows |-> [i \in 1..(Len(df) - Warmup) |->
                       [index |-> df[i + Warmup].index,
                        data |-> rsi(df, i + Warmup)]]]

(***************************************************************************)
(* State.                                                                  *)
(***************************************************************************)
VARIABLES
    candles,            \* the candle table of self._candles
    nevents,            \* candle-source events and rebinding calls so far
    pool,               \* handler tasks submitted to the worker pool
    jobs,               \* HeavyProcess jobs in flight
    first_gen,
    is_genering,
    is_current_update,
    is_histocric_load,
    df,                 \* self.df, rows [index, data]
    xdata,              \* self.xdata
    data,               \* self.data
    macd_data,          \* self.macd_data, self.histogram, self.signalma of
    histogram,          \* the MACD binding
    signalma,
    emitted,            \* number of emissions of each signal of the engine
    historic_arg,       \* argument of the last sig_add_historic emission
    bound_to,           \* the candle source self._candles designates
    connected,          \* per candle source, the number of connections of
                        \* its signals to the xxx_worker slots of the engine
    previous,           \* the table of the candle source not bound
    rebinds,            \* change_source / change_input calls so far
    fresh,              \* history: result of the last completed full
                        \* regeneration, valid until a later job is started,
                        \* and the source whose table it was computed from;
                        \* stuck: a full regeneration has failed leaving the
                        \* engine not Ready, and none has succeeded since
    last                \* history: the step taken last, and the position in
                        \* pool or jobs of the task or job it ran

vars == <<candles, nevents, pool, jobs, first_gen, is_genering,
          is_current_update, is_histocric_load, df, xdata, data,
          macd_data, histogram, signalma, emitted, historic_arg,
          bound_to, connected, previous, rebinds, dict_ta_params, fresh, last>>

engine == <<first_gen, is_genering, is_current_update, is_histocric_load,
            df, xdata, data, macd_data, histogram, signalma, emitted, historic_arg>>

channels == <<macd_data, histogram, signalma>>

\* the candle sources an engine can be bound to
Sources == {1, 2}

Other(s) == 3 - s

Signals == {"sig_reset_all", "sig_add_candle", "sig_update_candle", "sig_add_historic"}

\* Signal.emit()
Emit(sig) == emitted' = [emitted EXCEPT ![sig] = @ + 1]

\* Ready of spec.md 4.1
Ready == first_gen /\ ~is_genering

\* the binding of the engine to a candle source
binding == <<bound_to, connected, previous, rebinds>>

\* the step taken; no step of the candle source, of a handler or of a
\* callback touches the binding
Did(act, i) ==
    /\ last' = [act |-> act, i |-> i]
    /\ UNCHANGED <<binding, dict_ta_params>>

(***************************************************************************)
(* Candle source.                                                          *)
(***************************************************************************)
\* a fresh table of n rows
NewTable(n) == [i \in 1..n |-> [index |-> i, close |-> 0]]

\* self._candles.get_df(n): the whole table, or its last n rows
get_df(n) == IF n = 0 THEN candles ELSE Tail_(candles, n)

\* a full regeneration is pending: its handler waits in the pool or its job
\* is in flight
RegenPending ==
    \/ \E i \in 1..Len(pool) : pool[i].op = "fisrt_gen_data"
    \/ \E j \in 1..Len(jobs) : jobs[j].callback = "callback_first_gen"

\* the series is what a full regeneration over the candle table gives: it
\* reaches the last row of the table and no row is missing or doubled
Covers ==
    /\ df # <<>>
    /\ IndexOf(df) = xdata
    /\ calculate(candles).ok
    /\ xdata = IndexOf(calculate(candles).rows)

\* a handler task of the pool; arg is the handler's argument (the index of
\* new_candles[-1], or n of add_historic), val and tmp are its local values.
\* History: racing records whether a full regeneration was pending when the
\* source fired the event, clean whether the engine was Ready and idle with
\* a series covering the table, ev the number of the event
Task(op, arg) ==
    [op |-> op, pc |-> "start", arg |-> arg, racing |-> RegenPending,
     clean |-> (first_gen /\ ~is_genering /\ pool = <<>> /\ jobs = <<>> /\ Covers),
     ev |-> nevents + 1,
     val |-> <<>>, tmp |-> <<>>]

\* started_worker / add_historic_worker / add_worker / update_worker:
\* self.worker.submit(handler, ...)
Submit(task) == pool' = Append(pool, task)

\* sig_reset_all of the source: started_worker runs
SrcReset ==
    /\ nevents < MaxEvents
    /\ nevents' = nevents + 1
    /\ Submit(Task("fisrt_gen_data", 0))
    /\ Did("SrcReset", 0)
    /\ UNCHANGED <<candles, jobs, engine, fresh>>

\* sig_add_candle of the source: one new last row, add_worker runs
SrcAppend ==
    /\ nevents < MaxEvents
    /\ Len(candles) > 0
    /\ nevents' = nevents + 1
    /\ \E c \in Closes :
          candles' = Append(candles, [index |-> Last(candles).index + 1, close |-> c])
    /\ Submit(Task("add", Last(candles).index + 1))
    /\ Did("SrcAppend", 0)
    /\ UNCHANGED <<jobs, engine, fresh>>

\* sig_add_candle delivered again for the row that is already the last one
SrcRedeliver ==
    /\ nevents < MaxEvents
    /\ Len(candles) > 0
    /\ nevents' = nevents + 1
    /\ Submit(Task("add", Last(candles).index))
    /\ Did("SrcRedeliver", 0)
    /\ UNCHANGED <<candles, jobs, engine, fresh>>

\* sig_update_candle of the source: the last row changes in place,
\* update_worker runs
SrcUpdate ==
    /\ nevents < MaxEvents
    /\ Len(candles) > 0
    /\ nevents' = nevents + 1
    /\ \E c \in Closes \ {Last(candles).close} :
          candles' = [candles EXCEPT ![Len(candles)].close = c]
    /\ Submit(Task("update", Last(candles).index))
    /\ Did("SrcUpdate", 0)
    /\ UNCHANGED <<jobs, engine, fresh>>

\* sig_add_historic(n) of the source: n older rows in front,
\* add_historic_worker runs
SrcHistoric ==
    /\ nevents < MaxEvents
    /\ Len(candles) > 0
    /\ nevents' = nevents + 1
    /\ \E n \in HistoricLens :
          /\ candles' = [i \in 1..n |-> [index |-> candles[1].index - n + i - 1, close |-> 0]]
                            \o candles
          /\ Submit(Task("add_historic", n))
    /\ Did("SrcHistoric", 0)
    /\ UNCHANGED <<jobs, engine, fresh>>

(***************************************************************************)
(* HeavyProcess(self.calculate, callback, df, ...).start(): the job runs   *)
(* calculate over the slice it was given and hands the outcome to the      *)
(* callback.  History: arg keeps the argument of the handler that started  *)
(* the job, snap the index of the last row of the slice, src the candle     *)
(* source the slice was read from, overtaken whether the result of a job   *)
(* started later has been merged already.                                  *)
(***************************************************************************)
HeavyProcess(callback, slice, arg) ==
    [callback |-> callback, result |-> calculate(slice), arg |-> arg,
     snap |-> IF slice = <<>> THEN 0 ELSE Last(slice).index,
     src |-> bound_to, overtaken |-> FALSE]

start(process) ==
    /\ jobs' = Append(jobs, process)
    /\ fresh' = [fresh EXCEPT !.valid = FALSE]

(***************************************************************************)
(* Handlers, run by the threads of the worker pool.  A handler is split    *)
(* where another thread can change what it goes on to read.                *)
(***************************************************************************)
\* fisrt_gen_data: the flags
fisrt_gen_data(i) ==
    /\ pool[i].op = "fisrt_gen_data" /\ pool[i].pc = "start"
    /\ is_current_update' = FALSE
    /\ is_genering' = TRUE
    /\ pool' = [pool EXCEPT ![i].pc = "submit"]
    /\ Did("fisrt_gen_data", i)
    /\ UNCHANGED <<candles, nevents, jobs, first_gen, is_histocric_load,
                   df, xdata, data, channels, emitted, historic_arg, fresh>>

\* fisrt_gen_data mutated: the table is cleared and the handler returns
\* without starting a job
fisrt_gen_data_process_NoJob(i) ==
    /\ pool[i].op = "fisrt_gen_data" /\ pool[i].pc = "submit"
    /\ df' = <<>>
    /\ pool' = RemoveAt(pool, i)
    /\ last' = [act |-> "fisrt_gen_data_process", i |-> i]
    /\ UNCHANGED <<candles, nevents, jobs, first_gen, is_genering, is_current_update,
                   is_histocric_load, xdata, data, macd_data, histogram, signalma,
                   emitted, historic_arg, bound_to, connected, previous, rebinds,
                   dict_ta_params, fresh>>

\* fisrt_gen_data: the table is cleared and the job over the whole candle
\* table is started
fisrt_gen_data_process(i) ==
    /\ pool[i].op = "fisrt_gen_data" /\ pool[i].pc = "submit"
    /\ df' = <<>>
    /\ start(HeavyProcess("callback_first_gen", get_df(0), 0))
    /\ pool' = RemoveAt(pool, i)
    /\ Did("fisrt_gen_data_process", i)
    /\ UNCHANGED <<candles, nevents, first_gen, is_genering, is_current_update,
                   is_histocric_load, xdata, data, channels, emitted, historic_arg>>

\* add_historic: the flags
add_historic(i) ==
    /\ pool[i].op = "add_historic" /\ pool[i].pc = "start"
    /\ is_genering' = TRUE
    /\ is_histocric_load' = FALSE
    /\ pool' = [pool EXCEPT ![i].pc = "submit"]
    /\ Did("add_historic", i)
    /\ UNCHANGED <<candles, nevents, jobs, first_gen, is_current_update,
                   df, xdata, data, channels, emitted, historic_arg, fresh>>

\* add_historic: the job over candle_df.head(-_pre_len) is started
add_historic_process(i) ==
    /\ pool[i].op = "add_historic" /\ pool[i].pc = "submit"
    /\ LET _pre_len == Len(df)
       IN start(HeavyProcess("callback_gen_historic_data",
                             HeadAllBut(get_df(0), _pre_len), pool[i].arg))
    /\ pool' = RemoveAt(pool, i)
    /\ Did("add_historic_process", i)
    /\ UNCHANGED <<candles, nevents, engine>>

\* the guard mutated: the flag of a generation in flight is not consulted
Guard_NoGenering == (first_gen = TRUE)

\* the condition of add and update
Guard == (first_gen = TRUE) /\ (is_genering = FALSE)

\* add and update up to their condition: with the condition false the
\* handler returns
guarded(i) ==
    /\ is_current_update' = FALSE
    /\ IF Guard
       THEN pool' = [pool EXCEPT ![i].pc = "submit"]
       ELSE pool' = RemoveAt(pool, i)
    /\ UNCHANGED <<candles, nevents, jobs, first_gen, is_genering, is_histocric_load,
                   df, xdata, data, channels, emitted, historic_arg, fresh>>

\* the trailing rows add and update read
window == self_length * 5

add(i) ==
    /\ pool[i].op = "add" /\ pool[i].pc = "start"
    /\ guarded(i)
    /\ Did("add", i)

\* add: the job over the trailing window is started
add_process(i) ==
    /\ pool[i].op = "add" /\ pool[i].pc = "submit"
    /\ start(HeavyProcess("callback_add", get_df(window), pool[i].arg))
    /\ pool' = RemoveAt(pool, i)
    /\ Did("add_process", i)
    /\ UNCHANGED <<candles, nevents, engine>>

update(i) ==
    /\ pool[i].op = "update" /\ pool[i].pc = "start"
    /\ guarded(i)
    /\ Did("update", i)

\* update: the job over the trailing window is started
update_process(i) ==
    /\ pool[i].op = "update" /\ pool[i].pc = "submit"
    /\ start(HeavyProcess("callback_update", get_df(window), pool[i].arg))
    /\ pool' = RemoveAt(pool, i)
    /\ Did("update_process", i)
    /\ UNCHANGED <<candles, nevents, engine>>

(***************************************************************************)
(* Completion callbacks, one at a time (spec.md 4.3).  A callback runs to  *)
(* its end or to the statement that raises.                                *)
(***************************************************************************)
\* the callback of job j has merged its result: the job is done, and the
\* jobs started before it that are still in flight have been overtaken
merged(j) ==
    jobs' = RemoveAt([k \in 1..Len(jobs) |->
                         IF k < j THEN [jobs[k] EXCEPT !.overtaken = TRUE]
                         ELSE jobs[k]], j)

\* history: the job whose callback raises is a full regeneration and the
\* engine is not Ready
failed(j) ==
    IF jobs[j].callback = "callback_first_gen" /\ ~Ready
    THEN [fresh EXCEPT !.stuck = TRUE]
    ELSE fresh

\* the raise mutated: the callback clears is_genering before it raises
raises_AfterFlag(j) ==
    /\ jobs' = RemoveAt(jobs, j)
    /\ is_genering' = FALSE
    /\ UNCHANGED <<candles, nevents, pool, first_gen, is_current_update,
                   is_histocric_load, df, xdata, data, channels, emitted,
                   historic_arg>>
    /\ fresh' = failed(j)

\* the raise mutated: the callback emits its notification before it raises
raises_Notifying(j) ==
    /\ jobs' = RemoveAt(jobs, j)
    /\ emitted' = [emitted EXCEPT !["sig_add_candle"] = @ + 1]
    /\ UNCHANGED <<candles, nevents, pool, first_gen, is_genering, is_current_update,
                   is_histocric_load, df, xdata, data, channels, historic_arg>>
    /\ fresh' = failed(j)

\* a callback whose first statements raise: future.result() re-raises the
\* fault of the job, df["index"].iloc[-1] raises on a result without rows,
\* self.df.iloc[-1] = ... raises on a table without rows
raises(j) ==
    /\ jobs' = RemoveAt(jobs, j)
    /\ fresh' = failed(j)
    /\ UNCHANGED <<candles, nevents, pool, engine>>

callback_first_gen(j) ==
    /\ jobs[j].callback = "callback_first_gen"
    /\ Did("callback_first_gen", j)
    /\ IF ~jobs[j].result.ok
       THEN raises(j)
       ELSE /\ df' = jobs[j].result.rows
            /\ xdata' = IndexOf(jobs[j].result.rows)
            /\ data' = DataOf(jobs[j].result.rows)
            /\ is_genering' = FALSE
            /\ first_gen' = TRUE
            /\ Emit("sig_reset_all")
            /\ fresh' = [valid |-> TRUE, rows |-> jobs[j].result.rows, src |-> jobs[j].src,
                       stuck |-> FALSE]
            /\ merged(j)
            /\ UNCHANGED <<candles, nevents, pool, is_current_update,
                           is_histocric_load, channels, historic_arg>>

\* the concatenation mutated: the second operand comes first
concat_Swapped(a, b) == b \o a

\* pd.concat([a, b], ignore_index=True), np.concatenate((a, b))
concat(a, b) == a \o b

callback_gen_historic_data(j) ==
    /\ jobs[j].callback = "callback_gen_historic_data"
    /\ Did("callback_gen_historic_data", j)
    /\ IF ~jobs[j].result.ok
       THEN raises(j)
       ELSE LET _df == jobs[j].result.rows
                _len == Len(_df)
            IN /\ df' = concat(_df, df)
               /\ xdata' = concat(IndexOf(_df), xdata)
               /\ data' = concat(DataOf(_df), data)
               /\ is_genering' = FALSE
               /\ first_gen' = TRUE
               /\ is_histocric_load' = TRUE
               /\ Emit("sig_add_historic")
               /\ historic_arg' = _len
               /\ merged(j)
               /\ UNCHANGED <<candles, nevents, pool, is_current_update, channels, fresh>>

callback_add(j) ==
    /\ jobs[j].callback = "callback_add"
    /\ Did("callback_add", j)
    /\ IF ~jobs[j].result.ok \/ jobs[j].result.rows = <<>>
       THEN raises(j)
       ELSE LET last_index == Last(jobs[j].result.rows).index
                last_data == Last(jobs[j].result.rows).data
                new_frame == <<[index |-> last_index, data |-> last_data]>>
            IN /\ df' = df \o new_frame
               /\ xdata' = xdata \o <<last_index>>
               /\ data' = data \o <<last_data>>
               /\ Emit("sig_add_candle")
               /\ merged(j)
               /\ UNCHANGED <<candles, nevents, pool, first_gen, is_genering,
                              is_current_update, is_histocric_load, channels, historic_arg, fresh>>

callback_update(j) ==
    /\ jobs[j].callback = "callback_update"
    /\ Did("callback_update", j)
    /\ IF ~jobs[j].result.ok \/ jobs[j].result.rows = <<>> \/ df = <<>>
       THEN raises(j)
       ELSE LET last_index == Last(jobs[j].result.rows).index
                last_data == Last(jobs[j].result.rows).data
            IN /\ df' = [df EXCEPT ![Len(df)] = [index |-> last_index, data |-> last_data]]
               /\ xdata' = [xdata EXCEPT ![Len(xdata)] = last_index]
               /\ data' = [data EXCEPT ![Len(data)] = last_data]
               /\ Emit("sig_update_candle")
               /\ merged(j)
               /\ UNCHANGED <<candles, nevents, pool, first_gen, is_genering,
                              is_current_update, is_histocric_load, channels, historic_arg, fresh>>

(***************************************************************************)
(* Specification of the generic engine.                                    *)
(***************************************************************************)
\* RSI.__init__ but for the parameters
Constructed ==
    /\ candles \in {NewTable(n) : n \in InitLens}
    /\ nevents = 0
    /\ pool = <<>>
    /\ jobs = <<>>
    /\ first_gen = FALSE
    /\ is_genering = TRUE
    /\ is_current_update = FALSE
    /\ is_histocric_load = FALSE
    /\ df = <<>>
    /\ xdata = <<>>
    /\ data = <<>>
    /\ macd_data = <<>> /\ histogram = <<>> /\ signalma = <<>>
    /\ emitted = [s \in Signals |-> 0]
    /\ historic_arg = 0
    /\ bound_to = 1
    /\ connected = [s \in Sources |-> IF s = 1 THEN 1 ELSE 0]
    /\ previous = [i \in 1..OtherLen |-> [index |-> i, close |-> 1]]
    /\ rebinds = 0
    /\ fresh = [valid |-> FALSE, rows |-> <<>>, src |-> 0, stuck |-> FALSE]
    /\ last = [act |-> "__init__", i |-> 0]

\* RSI.__init__ with a valid period and no "drift" entry
Init ==
    /\ Constructed
    /\ dict_ta_params = [length |-> length, has_drift |-> FALSE]

Next ==
    \/ SrcReset
    \/ SrcAppend
    \/ SrcRedeliver
    \/ SrcUpdate
    \/ SrcHistoric
    \/ \E i \in 1..Len(pool) : fisrt_gen_data(i)
    \/ \E i \in 1..Len(pool) : fisrt_gen_data_process(i)
    \/ \E i \in 1..Len(pool) : add_historic(i)
    \/ \E i \in 1..Len(pool) : add_historic_process(i)
    \/ \E i \in 1..Len(pool) : add(i)
    \/ \E i \in 1..Len(pool) : add_process(i)
    \/ \E i \in 1..Len(pool) : update(i)
    \/ \E i \in 1..Len(pool) : update_process(i)
    \/ \E j \in 1..Len(jobs) : callback_first_gen(j)
    \/ \E j \in 1..Len(jobs) : callback_gen_historic_data(j)
    \/ \E j \in 1..Len(jobs) : callback_add(j)
    \/ \E j \in 1..Len(jobs) : callback_update(j)

Spec == Init /\ [][Next]_vars

\* a step of a thread of the worker pool: the handler of a reset or of an
\* append goes on
PoolStep ==
    \/ \E i \in 1..Len(pool) : fisrt_gen_data(i)
    \/ \E i \in 1..Len(pool) : fisrt_gen_data_process(i)
    \/ \E i \in 1..Len(pool) : add(i)
    \/ \E i \in 1..Len(pool) : add_process(i)

\* a job completes and its callback runs
CallbackStep ==
    \/ \E j \in 1..Len(jobs) : callback_first_gen(j)
    \/ \E j \in 1..Len(jobs) : callback_add(j)

\* resets and appends of the source, their handlers and their callbacks
NextFair ==
    \/ SrcReset
    \/ SrcAppend
    \/ \E i \in 1..Len(pool) : fisrt_gen_data(i)
    \/ \E i \in 1..Len(pool) : fisrt_gen_data_process(i)
    \/ \E i \in 1..Len(pool) : add(i)
    \/ \E i \in 1..Len(pool) : add_process(i)
    \/ \E j \in 1..Len(jobs) : callback_first_gen(j)
    \/ \E j \in 1..Len(jobs) : callback_add(j)

\* the engine under fair scheduling: a handler handed to the pool is run,
\* and a job started completes and has its callback run (spec.md 6: a
\* submitted job is assumed to always eventually complete)
SpecFair == Init /\ [][NextFair]_vars /\ WF_vars(PoolStep) /\ WF_vars(CallbackStep)

\* the engine constructed with any of the parameters: a period that is valid
\* or zero, with or without a "drift" entry
InitParams ==
    /\ Constructed
    /\ dict_ta_params \in [length : {0, length}, has_drift : BOOLEAN]

SpecParams == InitParams /\ [][Next]_vars

\* the engine constructed with a "drift" entry in its parameters
InitDrift ==
    /\ Constructed
    /\ dict_ta_params = [length |-> length, has_drift |-> TRUE]

SpecDrift == InitDrift /\ [][Next]_vars

TypeOK ==
    /\ nevents \in 0..MaxEvents
    /\ Len(pool) + Len(jobs) <= MaxEvents
    /\ is_current_update = FALSE

(***************************************************************************)
(* Rebinding.  change_source and change_input run on the thread of their   *)
(* caller; the candle source the engine was bound to before goes on        *)
(* emitting its signals.                                                   *)
(***************************************************************************)
\* disconnect_signals mutated: the connections are left in place
disconnect_signals_Noop(c) == c

\* disconnect_signals: the five signals of self._candles are disconnected;
\* without a connection the first disconnect raises RuntimeError, which is
\* passed over
disconnect_signals(c) ==
    IF c[bound_to] = 0 THEN c ELSE [c EXCEPT ![bound_to] = @ - 1]

\* connect_signals, after self._candles = X
connect_signals(c, X) == [c EXCEPT ![X] = @ + 1]

\* self._candles = X: the table read from now on is the table of X
Rebind(X) ==
    /\ bound_to' = X
    /\ candles' = IF X = bound_to THEN candles ELSE previous
    /\ previous' = IF X = bound_to THEN previous ELSE candles

\* change_source(X): disconnect, rebind, connect, started_worker()
change_source(X) ==
    /\ nevents < MaxEvents /\ rebinds < MaxRebinds
    /\ nevents' = nevents + 1
    /\ rebinds' = rebinds + 1
    /\ connected' = connect_signals(disconnect_signals(connected), X)
    /\ Rebind(X)
    /\ Submit(Task("fisrt_gen_data", 0))
    /\ last' = [act |-> "change_source", i |-> 0]
    /\ UNCHANGED <<jobs, engine, fresh, dict_ta_params>>

\* change_input(candles, dict_ta_params): with candles = X the engine is
\* rebound (X = 0 stands for candles = None); the parameters given are those
\* the engine has; the flags are set and fisrt_gen_data() runs in the call
change_input(X) ==
    /\ nevents < MaxEvents /\ rebinds < MaxRebinds
    /\ nevents' = nevents + 1
    /\ rebinds' = rebinds + 1
    /\ IF X # 0
       THEN /\ connected' = connect_signals(disconnect_signals(connected), X)
            /\ Rebind(X)
       ELSE UNCHANGED <<connected, bound_to, candles, previous>>
    /\ first_gen' = FALSE
    /\ is_genering' = TRUE
    /\ is_current_update' = FALSE
    /\ df' = <<>>
    /\ LET table == IF X # 0 /\ X # bound_to THEN previous ELSE candles
           X_ == IF X # 0 THEN X ELSE bound_to
       IN start([HeavyProcess("callback_first_gen", table, 0) EXCEPT !.src = X_])
    /\ last' = [act |-> "change_input", i |-> 0]
    /\ UNCHANGED <<pool, is_histocric_load, xdata, data, channels,
                   emitted, historic_arg, dict_ta_params>>

\* a signal of candle source s reaches the slots connected to it: the slot
\* runs once for each connection
Deliver(s, task) ==
    pool' = pool \o [k \in 1..connected[s] |-> task]

\* the candle source bound before emits sig_reset_all
PrevSrcReset ==
    /\ nevents < MaxEvents /\ rebinds > 0
    /\ nevents' = nevents + 1
    /\ Deliver(Other(bound_to), Task("fisrt_gen_data", 0))
    /\ last' = [act |-> "PrevSrcReset", i |-> 0]
    /\ UNCHANGED <<candles, jobs, engine, fresh, binding, dict_ta_params>>

\* the candle source bound before gets a new last row: sig_add_candle
PrevSrcAppend ==
    /\ nevents < MaxEvents /\ rebinds > 0
    /\ Len(previous) > 0
    /\ nevents' = nevents + 1
    /\ \E c \in Closes :
          previous' = Append(previous, [index |-> Last(previous).index + 1, close |-> c])
    /\ Deliver(Other(bound_to), Task("add", Last(previous).index + 1))
    /\ last' = [act |-> "PrevSrcAppend", i |-> 0]
    /\ UNCHANGED <<candles, jobs, engine, fresh, bound_to, connected, rebinds,
                   dict_ta_params>>

\* the last row of the candle source bound before changes: sig_update_candle
PrevSrcUpdate ==
    /\ nevents < MaxEvents /\ rebinds > 0
    /\ Len(previous) > 0
    /\ nevents' = nevents + 1
    /\ \E c \in Closes \ {Last(previous).close} :
          previous' = [previous EXCEPT ![Len(previous)].close = c]
    /\ Deliver(Other(bound_to), Task("update", Last(previous).index))
    /\ last' = [act |-> "PrevSrcUpdate", i |-> 0]
    /\ UNCHANGED <<candles, jobs, engine, fresh, bound_to, connected, rebinds,
                   dict_ta_params>>

\* the candle source bound before gets older rows: sig_add_historic(n)
PrevSrcHistoric ==
    /\ nevents < MaxEvents /\ rebinds > 0
    /\ Len(previous) > 0
    /\ nevents' = nevents + 1
    /\ \E n \in HistoricLens :
          /\ previous' = [i \in 1..n |-> [index |-> previous[1].index - n + i - 1, close |-> 0]]
                             \o previous
          /\ Deliver(Other(bound_to), Task("add_historic", n))
    /\ last' = [act |-> "PrevSrcHistoric", i |-> 0]
    /\ UNCHANGED <<candles, jobs, engine, fresh, bound_to, connected, rebinds,
                   dict_ta_params>>

\* the steps of the engine between rebindings: reset, append and mutate-last
\* of the source bound, their handlers and callbacks (the historic load and
\* the re-delivered append play no part in a rebinding and are left to Spec)
NextRebind ==
    \/ SrcReset
    \/ SrcAppend
    \/ SrcUpdate
    \/ \E i \in 1..Len(pool) : fisrt_gen_data(i)
    \/ \E i \in 1..Len(pool) : fisrt_gen_data_process(i)
    \/ \E i \in 1..Len(pool) : add(i)
    \/ \E i \in 1..Len(pool) : add_process(i)
    \/ \E i \in 1..Len(pool) : update(i)
    \/ \E i \in 1..Len(pool) : update_process(i)
    \/ \E j \in 1..Len(jobs) : callback_first_gen(j)
    \/ \E j \in 1..Len(jobs) : callback_add(j)
    \/ \E j \in 1..Len(jobs) : callback_update(j)
    \/ \E X \in Sources : change_source(X)
    \/ \E X \in Sources \cup {0} : change_input(X)
    \/ PrevSrcReset
    \/ PrevSrcAppend
    \/ PrevSrcUpdate
    \/ PrevSrcHistoric

SpecRebind == Init /\ [][NextRebind]_vars

(***************************************************************************)
(* Subscription.  connect_signals and disconnect_signals called by the     *)
(* consumer, on an engine connected or not, and the signals of the source  *)
(* bound delivered to the connections there are.                           *)
(***************************************************************************)
\* the consumer calls connect_signals()
Call_connect_signals ==
    /\ nevents < MaxEvents
    /\ connected[bound_to] < MaxConnections
    /\ nevents' = nevents + 1
    /\ connected' = connect_signals(connected, bound_to)
    /\ last' = [act |-> "connect_signals", i |-> 0]
    /\ UNCHANGED <<candles, pool, jobs, engine, fresh, bound_to, previous,
                   rebinds, dict_ta_params>>

\* the consumer calls disconnect_signals(); of several connections of a
\* slot the disconnect removes one or all (the signal library is not part
\* of the engine)
Call_disconnect_signals ==
    /\ nevents < MaxEvents
    /\ nevents' = nevents + 1
    /\ connected' \in {disconnect_signals(connected),
                       [connected EXCEPT ![bound_to] = 0]}
    /\ last' = [act |-> "disconnect_signals", i |-> 0]
    /\ UNCHANGED <<candles, pool, jobs, engine, fresh, bound_to, previous,
                   rebinds, dict_ta_params>>

\* sig_reset_all of the source bound
SigReset ==
    /\ nevents < MaxEvents
    /\ nevents' = nevents + 1
    /\ Deliver(bound_to, Task("fisrt_gen_data", 0))
    /\ Did("SigReset", 0)
    /\ UNCHANGED <<candles, jobs, engine, fresh>>

\* sig_add_candle of the source bound: one new last row
SigAppend ==
    /\ nevents < MaxEvents
    /\ Len(candles) > 0
    /\ nevents' = nevents + 1
    /\ \E c \in Closes :
          candles' = Append(candles, [index |-> Last(candles).index + 1, close |-> c])
    /\ Deliver(bound_to, Task("add", Last(candles).index + 1))
    /\ Did("SigAppend", 0)
    /\ UNCHANGED <<jobs, engine, fresh>>

NextSubscribe ==
    \/ Call_connect_signals
    \/ Call_disconnect_signals
    \/ SigReset
    \/ SigAppend
    \/ \E i \in 1..Len(pool) : fisrt_gen_data(i)
    \/ \E i \in 1..Len(pool) : fisrt_gen_data_process(i)
    \/ \E i \in 1..Len(pool) : add(i)
    \/ \E i \in 1..Len(pool) : add_process(i)
    \/ \E j \in 1..Len(jobs) : callback_first_gen(j)
    \/ \E j \in 1..Len(jobs) : callback_add(j)

SpecSubscribe == Init /\ [][NextSubscribe]_vars

(***************************************************************************)
(* The MACD binding ("macd new.py").  Its fisrt_gen_data, add_historic and *)
(* their callbacks are those of the generic engine over four arrays; its   *)
(* add and update compute and merge on the pool thread that runs them.     *)
(***************************************************************************)
fast_period == 1
slow_period == 2
signal_period == 2

\* macd(): fast and slow after the swap of `if slow < fast`
macd_fast == IF slow_period < fast_period THEN slow_period ELSE fast_period
macd_slow == IF slow_period < fast_period THEN fast_period ELSE slow_period

\* macd(): _length = slow + signal - 1, the size v_series asks for
macd_length == macd_slow + signal_period - 1

\* the three lines at row k of the slice: the MACD line exists from row
\* macd_slow on, the signal line (a moving average of signal_period values of
\* the MACD line) and the histogram from row macd_length on
macd_line(s, k) == SumClose(s, k) % DataLevels

RECURSIVE SumLine(_, _, _)
SumLine(s, k, n) == IF n = 0 THEN 0 ELSE macd_line(s, k) + SumLine(s, k - 1, n - 1)

signal_line(s, k) == SumLine(s, k, signal_period) % DataLevels
histogram_line(s, k) == (macd_line(s, k) - signal_line(s, k)) % DataLevels

Min(S) == CHOOSE x \in S : \A y \in S : x <= y

\* MACD.calculate: a fault when macd() returns None (INDICATOR.columns
\* raises), otherwise the last _len rows of the slice
MACD_calculate(s) ==
    IF Len(s) < macd_length
    THEN [ok |-> FALSE, rows |-> <<>>]
    ELSE LET len_macd == Len(s) - (macd_slow - 1)
             len_signalma == Len(s) - (macd_length - 1)
             len_histogram == Len(s) - (macd_length - 1)
             _len == Min({len_histogram, len_macd, len_signalma, Len(s) - slow_period})
             first == Len(s) - _len
         IN [ok |-> TRUE,
             rows |-> [i \in 1.._len |->
                          [index |-> s[first + i].index,
                           macd |-> macd_line(s, first + i),
                           histogram |-> histogram_line(s, first + i),
                           signalma |-> signal_line(s, first + i)]]]

\* MACD.add_update_calculate followed by the three .iloc[-1] of add and
\* update: paire_data returns empty series when macd() returned None, and
\* .iloc[-1] of an empty series raises
add_update_calculate(s) ==
    IF Len(s) < macd_length
    THEN [ok |-> FALSE, macd |-> 0, histogram |-> 0, signalma |-> 0]
    ELSE [ok |-> TRUE,
          macd |-> macd_line(s, Len(s)),
          histogram |-> histogram_line(s, Len(s)),
          signalma |-> signal_line(s, Len(s))]

MACD_HeavyProcess(callback, slice, arg) ==
    [callback |-> callback, result |-> MACD_calculate(slice), arg |-> arg,
     snap |-> IF slice = <<>> THEN 0 ELSE Last(slice).index,
     src |-> bound_to, overtaken |-> FALSE]

\* MACD.fisrt_gen_data after the flags (which are fisrt_gen_data(i))
MACD_fisrt_gen_data_process(i) ==
    /\ pool[i].op = "fisrt_gen_data" /\ pool[i].pc = "submit"
    /\ df' = <<>>
    /\ start(MACD_HeavyProcess("callback_first_gen", get_df(0), 0))
    /\ pool' = RemoveAt(pool, i)
    /\ Did("fisrt_gen_data_process", i)
    /\ UNCHANGED <<candles, nevents, first_gen, is_genering, is_current_update,
                   is_histocric_load, xdata, data, channels, emitted, historic_arg>>

\* MACD.add_historic after the flags (which are add_historic(i))
MACD_add_historic_process(i) ==
    /\ pool[i].op = "add_historic" /\ pool[i].pc = "submit"
    /\ LET _pre_len == Len(df)
       IN start(MACD_HeavyProcess("callback_gen_historic_data",
                                  HeadAllBut(get_df(0), _pre_len), pool[i].arg))
    /\ pool' = RemoveAt(pool, i)
    /\ Did("add_historic_process", i)
    /\ UNCHANGED <<candles, nevents, engine>>

MacdOf(rows) == [i \in 1..Len(rows) |-> rows[i].macd]
HistogramOf(rows) == [i \in 1..Len(rows) |-> rows[i].histogram]
SignalmaOf(rows) == [i \in 1..Len(rows) |-> rows[i].signalma]

MACD_callback_first_gen(j) ==
    /\ jobs[j].callback = "callback_first_gen"
    /\ Did("callback_first_gen", j)
    /\ IF ~jobs[j].result.ok
       THEN raises(j)
       ELSE /\ df' = jobs[j].result.rows
            /\ xdata' = IndexOf(jobs[j].result.rows)
            /\ macd_data' = MacdOf(jobs[j].result.rows)
            /\ histogram' = HistogramOf(jobs[j].result.rows)
            /\ signalma' = SignalmaOf(jobs[j].result.rows)
            /\ is_genering' = FALSE
            /\ first_gen' = TRUE
            /\ Emit("sig_reset_all")
            /\ fresh' = [valid |-> TRUE, rows |-> jobs[j].result.rows, src |-> jobs[j].src,
                       stuck |-> FALSE]
            /\ merged(j)
            /\ UNCHANGED <<candles, nevents, pool, is_current_update,
                           is_histocric_load, data, historic_arg>>

MACD_callback_gen_historic_data(j) ==
    /\ jobs[j].callback = "callback_gen_historic_data"
    /\ Did("callback_gen_historic_data", j)
    /\ IF ~jobs[j].result.ok
       THEN raises(j)
       ELSE LET _df == jobs[j].result.rows
                _len == Len(_df)
            IN /\ df' = _df \o df
               /\ xdata' = IndexOf(_df) \o xdata
               /\ macd_data' = MacdOf(_df) \o macd_data
               /\ histogram' = HistogramOf(_df) \o histogram
               /\ signalma' = SignalmaOf(_df) \o signalma
               /\ is_genering' = FALSE
               /\ first_gen' = TRUE
               /\ is_histocric_load' = TRUE
               /\ Emit("sig_add_historic")
               /\ historic_arg' = _len
               /\ merged(j)
               /\ UNCHANGED <<candles, nevents, pool, is_current_update, data, fresh>>

\* MACD.add and MACD.update after their condition (which is add(i) and
\* update(i)): the trailing window is read and the last values computed; the
\* handler ends here when .iloc[-1] raises
MACD_calculate_last(i) ==
    /\ pool[i].op \in {"add", "update"} /\ pool[i].pc = "submit"
    /\ LET r == add_update_calculate(get_df(slow_period * 5))
       IN IF r.ok
          THEN pool' = [pool EXCEPT
                          ![i].pc = IF pool[i].op = "add" THEN "df_load" ELSE "df_set",
                          ![i].val = [index |-> pool[i].arg, macd |-> r.macd,
                                      histogram |-> r.histogram, signalma |-> r.signalma]]
          ELSE pool' = RemoveAt(pool, i)
    /\ Did("calculate_last", i)
    /\ UNCHANGED <<candles, nevents, jobs, engine, fresh>>

\* MACD.add: each of  self.a = concat((self.a, new))  reads the attribute
\* and later stores the longer array; another thread can run in between
LoadPc == {"df_load", "x_load", "m_load", "h_load", "s_load"}
StorePc == {"df_store", "x_store", "m_store", "h_store", "s_store"}

MACD_add_load(i) ==
    /\ pool[i].op = "add" /\ pool[i].pc \in LoadPc
    /\ pool' = [pool EXCEPT
                  ![i].tmp = CASE pool[i].pc = "df_load" -> df
                               [] pool[i].pc = "x_load" -> xdata
                               [] pool[i].pc = "m_load" -> macd_data
                               [] pool[i].pc = "h_load" -> histogram
                               [] pool[i].pc = "s_load" -> signalma,
                  ![i].pc = CASE pool[i].pc = "df_load" -> "df_store"
                              [] pool[i].pc = "x_load" -> "x_store"
                              [] pool[i].pc = "m_load" -> "m_store"
                              [] pool[i].pc = "h_load" -> "h_store"
                              [] pool[i].pc = "s_load" -> "s_store"]
    /\ Did("add_load", i)
    /\ UNCHANGED <<candles, nevents, jobs, engine, fresh>>

\* the store, and after the last one  self.sig_add_candle.emit()
MACD_add_store(i) ==
    /\ pool[i].op = "add" /\ pool[i].pc \in StorePc
    /\ LET pc == pool[i].pc
           tmp == pool[i].tmp
           val == pool[i].val
       IN /\ df' = IF pc = "df_store" THEN tmp \o <<val>> ELSE df
          /\ xdata' = IF pc = "x_store" THEN tmp \o <<val.index>> ELSE xdata
          /\ macd_data' = IF pc = "m_store" THEN tmp \o <<val.macd>> ELSE macd_data
          /\ histogram' = IF pc = "h_store" THEN tmp \o <<val.histogram>> ELSE histogram
          /\ signalma' = IF pc = "s_store" THEN tmp \o <<val.signalma>> ELSE signalma
          /\ emitted' = IF pc = "s_store"
                        THEN [emitted EXCEPT !["sig_add_candle"] = @ + 1]
                        ELSE emitted
          /\ pool' = IF pc = "s_store"
                     THEN RemoveAt(pool, i)
                     ELSE [pool EXCEPT
                             ![i].tmp = <<>>,
                             ![i].pc = CASE pc = "df_store" -> "x_load"
                                         [] pc = "x_store" -> "m_load"
                                         [] pc = "m_store" -> "h_load"
                                         [] pc = "h_store" -> "s_load"]
    /\ Did("add_store", i)
    /\ UNCHANGED <<candles, nevents, jobs, first_gen, is_genering, is_current_update,
                   is_histocric_load, data, historic_arg, fresh>>

\* MACD.update: self.df.iloc[-1] = [...] and then the four stores of
\* self.xdata[-1], self.macd_data[-1], self.histogram[-1], self.signalma[-1]
\* = ..., each in place; a store into an empty table or array raises and ends
\* the handler; after the last one  self.sig_update_candle.emit()
SetPc == {"df_set", "x_set", "m_set", "h_set", "s_set"}

SetLast(s, v) == [s EXCEPT ![Len(s)] = v]

MACD_update_set(i) ==
    /\ pool[i].op = "update" /\ pool[i].pc \in SetPc
    /\ LET pc == pool[i].pc
           val == pool[i].val
           target == CASE pc = "df_set" -> df
                       [] pc = "x_set" -> xdata
                       [] pc = "m_set" -> macd_data
                       [] pc = "h_set" -> histogram
                       [] pc = "s_set" -> signalma
       IN IF target = <<>>
          THEN /\ pool' = RemoveAt(pool, i)
               /\ UNCHANGED <<df, xdata, channels, emitted>>
          ELSE /\ df' = IF pc = "df_set" THEN SetLast(df, val) ELSE df
               /\ xdata' = IF pc = "x_set" THEN SetLast(xdata, val.index) ELSE xdata
               /\ macd_data' = IF pc = "m_set" THEN SetLast(macd_data, val.macd) ELSE macd_data
               /\ histogram' = IF pc = "h_set" THEN SetLast(histogram, val.histogram) ELSE histogram
               /\ signalma' = IF pc = "s_set" THEN SetLast(signalma, val.signalma) ELSE signalma
               /\ emitted' = IF pc = "s_set"
                             THEN [emitted EXCEPT !["sig_update_candle"] = @ + 1]
                             ELSE emitted
               /\ pool' = IF pc = "s_set"
                          THEN RemoveAt(pool, i)
                          ELSE [pool EXCEPT
                                  ![i].pc = CASE pc = "df_set" -> "x_set"
                                              [] pc = "x_set" -> "m_set"
                                              [] pc = "m_set" -> "h_set"
                                              [] pc = "h_set" -> "s_set"]
    /\ Did("update_set", i)
    /\ UNCHANGED <<candles, nevents, jobs, first_gen, is_genering, is_current_update,
                   is_histocric_load, data, historic_arg, fresh>>

NextMACD ==
    \/ SrcReset
    \/ SrcAppend
    \/ SrcRedeliver
    \/ SrcUpdate
    \/ SrcHistoric
    \/ \E i \in 1..Len(pool) : fisrt_gen_data(i)
    \/ \E i \in 1..Len(pool) : MACD_fisrt_gen_data_process(i)
    \/ \E i \in 1..Len(pool) : add_historic(i)
    \/ \E i \in 1..Len(pool) : MACD_add_historic_process(i)
    \/ \E i \in 1..Len(pool) : add(i)
    \/ \E i \in 1..Len(pool) : update(i)
    \/ \E i \in 1..Len(pool) : MACD_calculate_last(i)
    \/ \E i \in 1..Len(pool) : MACD_add_load(i)
    \/ \E i \in 1..Len(pool) : MACD_add_store(i)
    \/ \E i \in 1..Len(pool) : MACD_update_set(i)
    \/ \E j \in 1..Len(jobs) : MACD_callback_first_gen(j)
    \/ \E j \in 1..Len(jobs) : MACD_callback_gen_historic_data(j)

SpecMACD == Init /\ [][NextMACD]_vars

(***************************************************************************)
(* Claims about the generic engine, checked under Spec.                    *)
(***************************************************************************)
\* the job a callback step has just completed, and the task a handler step
\* has just run (read in the state before the step)
DoneJob == jobs[last'.i]
RanTask == pool[last'.i]

Callbacks == {"callback_first_gen", "callback_gen_historic_data",
              "callback_add", "callback_update"}

\* C1: at most one computation job of the instance (full regeneration,
\* historic load or trailing-window recompute) is in flight at any time.
C1_SingleFlight == Len(jobs) <= 1

\* C2: after any sequence of events and deliveries the index array xdata is
\* strictly increasing.
C2_IndexStrictlyIncreasing == StrictlyIncreasing(xdata)

\* C4: an append or mutate-last event handled while the engine is not Ready
\* is dropped: the handler returns without starting a job, nothing is
\* emitted, the series and the generation flags stay as they are, and no
\* trace of the event is left that could replay it.
C4_DroppedWhenNotReady ==
    [][(last'.act \in {"add", "update"} /\ ~Ready)
         => /\ pool' = RemoveAt(pool, last'.i)
            /\ UNCHANGED <<candles, jobs, first_gen, is_genering, is_histocric_load,
                           df, xdata, data, channels, emitted, historic_arg>>]_vars

\* C4 witness: an append and a mutate-last were handled in Generating after
\* a first generation, and nothing is left of them
C4_Witness ==
    /\ last.act \in {"add", "update"}
    /\ first_gen /\ is_genering
    /\ pool = <<>>
    /\ emitted["sig_add_candle"] = 0 /\ emitted["sig_update_candle"] = 0

\* C5: an append fired while a full regeneration was pending (reset fired,
\* regeneration not completed) and handled while one still is, is dropped,
\* whatever the order in which the pool runs the two handlers.
C5_AppendAfterResetDropped ==
    [][(last'.act = "add" /\ RanTask.racing /\ RegenPending)
         => pool' = RemoveAt(pool, last'.i)]_vars

\* C6: from the completion of a full regeneration until the next job is
\* started, the series is exactly the result of that regeneration.
C6_ResetReplacesFully ==
    fresh.valid => /\ df = fresh.rows
                   /\ xdata = IndexOf(fresh.rows)
                   /\ data = DataOf(fresh.rows)

\* C7: a computed row whose index equals the current last index of the
\* series is rejected: the completion of such an append adds no row.
C7_DuplicateTipRejected ==
    [][(/\ last'.act = "callback_add"
        /\ DoneJob.result.ok /\ DoneJob.result.rows # <<>>
        /\ xdata # <<>>
        /\ Last(DoneJob.result.rows).index = Last(xdata))
         => Len(xdata') = Len(xdata)]_vars

\* C8: the rows a historic load puts in front of the series all have an
\* index strictly less than the previous first index.
C8_HistoricBelowFirst ==
    [][(last'.act = "callback_gen_historic_data" /\ xdata # <<>>)
         => \A k \in 1..(Len(xdata') - Len(xdata)) : xdata'[k] < xdata[1]]_vars

\* C9: the completion of an append job adds exactly one row to every array,
\* the final row of the result, whose index is the index of the candle that
\* triggered the event, and emits sig_add_candle once.
C9_AppendAddsTriggeringCandle ==
    [][last'.act = "callback_add"
         => /\ DoneJob.result.ok /\ DoneJob.result.rows # <<>>
            /\ xdata' = xdata \o <<Last(DoneJob.result.rows).index>>
            /\ data' = data \o <<Last(DoneJob.result.rows).data>>
            /\ df' = df \o <<Last(DoneJob.result.rows)>>
            /\ Last(xdata') = DoneJob.arg
            /\ emitted' = [emitted EXCEPT !["sig_add_candle"] = @ + 1]]_vars

\* C10: the completion of a mutate-last job overwrites the final row of
\* every array with the final row of the result, changes no length and no
\* other row, and emits sig_update_candle once.
C10_UpdateOverwritesLast ==
    [][last'.act = "callback_update"
         => /\ DoneJob.result.ok /\ DoneJob.result.rows # <<>>
            /\ df # <<>> /\ xdata # <<>> /\ data # <<>>
            /\ df' = [df EXCEPT ![Len(df)] = Last(DoneJob.result.rows)]
            /\ xdata' = [xdata EXCEPT ![Len(xdata)] = Last(DoneJob.result.rows).index]
            /\ data' = [data EXCEPT ![Len(data)] = Last(DoneJob.result.rows).data]
            /\ emitted' = [emitted EXCEPT !["sig_update_candle"] = @ + 1]]_vars

\* C11: when a historic load completes with a result, the table and every
\* array become the result followed by their previous contents, and
\* sig_add_historic is emitted once, carrying the number of rows prepended.
C11_HistoricPrepends ==
    [][(last'.act = "callback_gen_historic_data" /\ DoneJob.result.ok)
         => /\ df' = DoneJob.result.rows \o df
            /\ xdata' = IndexOf(DoneJob.result.rows) \o xdata
            /\ data' = DataOf(DoneJob.result.rows) \o data
            /\ emitted' = [emitted EXCEPT !["sig_add_historic"] = @ + 1]
            /\ historic_arg' = Len(xdata') - Len(xdata)]_vars

\* C11 witness: a historic load has put two rows in front of a series of two
C11_Witness ==
    /\ last.act = "callback_gen_historic_data"
    /\ emitted["sig_add_historic"] = 1
    /\ historic_arg = 2
    /\ xdata = <<0, 1, 2, 3>>

\* C12: a historic-prepend of m rows fired in a Ready, idle engine whose
\* series covers the table, and handled before any other event, starts a job
\* whose result has exactly m rows; the completion of a historic load makes
\* the table and every array longer by the number of rows of its result.
C12_HistoricGrowsByM ==
    [][/\ (last'.act = "add_historic_process" /\ RanTask.clean /\ RanTask.ev = nevents)
           => /\ Last(jobs').result.ok
              /\ Len(Last(jobs').result.rows) = RanTask.arg
       /\ (last'.act = "callback_gen_historic_data" /\ DoneJob.result.ok)
           => /\ Len(xdata') = Len(xdata) + Len(DoneJob.result.rows)
              /\ Len(data') = Len(data) + Len(DoneJob.result.rows)
              /\ Len(df') = Len(df) + Len(DoneJob.result.rows)]_vars

\* C12 witness: after a reset over a table of three rows and nothing else, a
\* historic-prepend of two rows has been loaded: the series went from two
\* rows to four
C12_Witness ==
    /\ last.act = "callback_gen_historic_data"
    /\ nevents = 2
    /\ emitted["sig_reset_all"] = 1
    /\ historic_arg = 2
    /\ Len(candles) = 5
    /\ Len(xdata) = 4 /\ Len(data) = 4 /\ Len(df) = 4

\* C13: when a full regeneration completes with a result, the engine is
\* Ready with first_gen true, the table and the arrays are the result, whose
\* last index is the last index of the snapshot it was computed from, and
\* sig_reset_all is emitted once.
C13_RegenerationCompletes ==
    [][(last'.act = "callback_first_gen" /\ DoneJob.result.ok)
         => /\ is_genering' = FALSE /\ first_gen' = TRUE
            /\ df' = DoneJob.result.rows
            /\ xdata' = IndexOf(DoneJob.result.rows)
            /\ data' = DataOf(DoneJob.result.rows)
            /\ xdata' # <<>> /\ Last(xdata') = DoneJob.snap
            /\ emitted' = [emitted EXCEPT !["sig_reset_all"] = @ + 1]]_vars

\* C13 witness: the regeneration over a table of three rows has completed
C13_Witness ==
    /\ last.act = "callback_first_gen"
    /\ first_gen /\ ~is_genering
    /\ xdata = <<2, 3>>
    /\ emitted["sig_reset_all"] = 1

(***************************************************************************)
(* Reading interface of the engine.                                        *)
(***************************************************************************)
\* a[start:stop] of a sequence of n elements: the bound as the slice takes it
\* (a negative bound counts from the end, a bound past an end is clipped)
SliceBound(b, n) == IF b < 0 THEN (IF n + b < 0 THEN 0 ELSE n + b)
                    ELSE (IF b > n THEN n ELSE b)

PySlice(a, lo, hi) == SubSeq(a, lo + 1, hi)

\* RSI.get_df(n): self.df, or its last n rows
RSI_get_df(n) == IF n = 0 THEN df ELSE Tail_(df, n)

\* RSI.get_data(start, stop): the pair (x_data, y_data)
get_data(start_, stop_) ==
    LET n == Len(xdata)
        m == Len(data)
    IN  IF n = 0 THEN <<<<>>, <<>>>>
        ELSE IF start_ = 0 /\ stop_ = 0 THEN <<xdata, data>>
        ELSE IF start_ = 0
             THEN <<PySlice(xdata, 0, SliceBound(stop_, n)),
                    PySlice(data, 0, SliceBound(stop_, m))>>
        ELSE IF stop_ = 0
             THEN <<PySlice(xdata, SliceBound(start_, n), n),
                    PySlice(data, SliceBound(start_, m), m)>>
        ELSE <<PySlice(xdata, SliceBound(start_, n), SliceBound(stop_, n)),
               PySlice(data, SliceBound(start_, m), SliceBound(stop_, m))>>

\* a full regeneration job has been started and has not completed
RegenInFlight == \E j \in 1..Len(jobs) : jobs[j].callback = "callback_first_gen"

\* C15: from the submission of a full regeneration job until its completion
\* get_df and get_data expose no row: the previous series has been cleared.
C15_ClearedWhileRegenerating ==
    RegenInFlight => /\ RSI_get_df(0) = <<>>
                     /\ get_data(0, 0) = <<<<>>, <<>>>>

\* C16: constructing an engine submits a full regeneration: when __init__
\* returns, a regeneration handler or job of the instance is pending.
C16_ConstructionRegenerates == (last.act = "__init__") => RegenPending

\* C18: results are merged in the order their jobs were started: a callback
\* that merges (and emits its notification) never belongs to a job started
\* before a job whose result has been merged already.
C18_MergedInSubmissionOrder ==
    [][(last'.act \in Callbacks /\ emitted' # emitted) => ~DoneJob.overtaken]_vars

\* C20: when the computation of a full regeneration job raised, its
\* completion is absorbed: the engine is not Ready afterwards but still
\* Generating, no sig_reset_all is emitted and the series is not modified.
C20_FailedRegenerationAbsorbed ==
    [][(last'.act = "callback_first_gen" /\ ~DoneJob.result.ok)
         => /\ ~Ready' /\ is_genering'
            /\ emitted' = emitted
            /\ UNCHANGED <<df, xdata, data>>]_vars

\* the step taken is a callback or a handler that raises: the fault of the
\* job re-raised by future.result(), an .iloc[-1] of a result without rows,
\* a store into a table without rows
FaultStep ==
    \/ /\ last'.act \in {"callback_first_gen", "callback_gen_historic_data"}
       /\ ~DoneJob.result.ok
    \/ /\ last'.act = "callback_add"
       /\ (~DoneJob.result.ok \/ DoneJob.result.rows = <<>>)
    \/ /\ last'.act = "callback_update"
       /\ (~DoneJob.result.ok \/ DoneJob.result.rows = <<>> \/ df = <<>>)

\* what a consumer reads through get_df and get_data, for a few arguments
Arguments == -2..2

ConsumerReads ==
    /\ \A n \in 0..2 : RSI_get_df(n) \in Seq([index : Int, data : Int])
    /\ \A a, s \in Arguments : get_data(a, s) \in Seq(Int) \X Seq(Int)

Generating ==
    /\ is_genering
    /\ \E j \in 1..Len(jobs) :
          jobs[j].callback \in {"callback_first_gen", "callback_gen_historic_data"}

\* C27: a reset or historic-prepend trigger handled while the engine is
\* already Generating produces no new job: its handler returns, and does not
\* go on to the statement that starts the computation.
C27_NoJobWhileGenerating ==
    [][(last'.act \in {"fisrt_gen_data", "add_historic"} /\ Generating)
         => (pool' = RemoveAt(pool, last'.i) /\ jobs' = jobs)]_vars

\* the values of an array
Range(a) == {a[k] : k \in 1..Len(a)}

\* C28: once an append or a mutate-last for the last candle of the table has
\* been serviced, with no other event waiting and no other job in flight,
\* the series holds a row for every candle index from its first index to the
\* last index of the table, whatever append was dropped before.
C28_NoIndexMissingAfterService ==
    [][(/\ last'.act \in {"callback_add", "callback_update"}
        /\ emitted' # emitted
        /\ pool = <<>> /\ Len(jobs) = 1
        /\ DoneJob.arg = Last(candles).index /\ DoneJob.snap = Last(candles).index)
         => \A k \in xdata'[1]..Last(candles').index : k \in Range(xdata')]_vars

\* C29: after a full regeneration has failed and until one succeeds, no
\* append or mutate-last is serviced and the engine does not become Ready:
\* the only step that makes it Ready is the completion of a full
\* regeneration, never that of a historic load.
C29_StuckUntilRegeneration ==
    [][fresh.stuck
         => /\ last'.act \notin {"add_process", "update_process"}
            /\ (Ready' => last'.act = "callback_first_gen")]_vars

\* STOCHRSI.get_data(start, stop) over the generic engine, whose one channel
\* stands for both stochrsi_ and signalma: a dict of three empty lists for
\* the empty series, otherwise the tuple (x_data, stochrsi_, signalma)
STOCHRSI_get_data(start_, stop_) ==
    IF Len(xdata) = 0
    THEN [type |-> "dict",
          value |-> [x_data |-> <<>>, stochrsi |-> <<>>, signalma |-> <<>>]]
    ELSE LET xy == get_data(start_, stop_)
         IN [type |-> "tuple", value |-> <<xy[1], xy[2], xy[2]>>]

\* the slice of array a the reading interface promises for (start, stop):
\* its elements from position lo up to, not including, hi, counted from 0,
\* where a zero start is the beginning and a zero stop the end
Promised(a, start_, stop_) ==
    LET n == Len(a)
        at(b) == IF b < 0 THEN (IF n + b < 0 THEN 0 ELSE n + b)
                 ELSE (IF b > n THEN n ELSE b)
        lo == IF start_ = 0 THEN 0 ELSE at(start_)
        hi == IF stop_ = 0 THEN n ELSE at(stop_)
    IN [k \in 1..(IF hi > lo THEN hi - lo ELSE 0) |-> a[lo + k]]

\* C25: in every state, the empty series included, and for every start and
\* stop, get_data returns the tuple of the index array and the channel
\* arrays, of equal length, cut to the slice asked for.
C25_GetDataSlices ==
    \A a, s \in Arguments :
        /\ get_data(a, s) = <<Promised(xdata, a, s), Promised(data, a, s)>>
        /\ Len(get_data(a, s)[1]) = Len(get_data(a, s)[2])
        /\ STOCHRSI_get_data(a, s).type = "tuple"
        /\ STOCHRSI_get_data(a, s).value
              = <<Promised(xdata, a, s), Promised(data, a, s), Promised(data, a, s)>>

\* the rows of the candle table a historic load is to compute over: the
\* first total_length - current_length rows (spec.md 4.1)
OlderRows ==
    IF Len(df) >= Len(candles) THEN <<>> ELSE SubSeq(candles, 1, Len(candles) - Len(df))

\* the job started last
NewJob == jobs'[Len(jobs')]

\* C31: the job a historic-prepend event starts computes over exactly the
\* first total_length - current_length rows of the candle table, all of them
\* older than the candle of the first row of the series.
C31_HistoricSliceIsOlderRows ==
    [][last'.act = "add_historic_process"
         => /\ Len(jobs') = Len(jobs) + 1
            /\ NewJob.result = calculate(OlderRows)
            /\ NewJob.snap = (IF OlderRows = <<>> THEN 0 ELSE Last(OlderRows).index)
            /\ (xdata # <<>> /\ OlderRows # <<>>) => Last(OlderRows).index < xdata[1]]_vars

\* C33: the completion of an append or mutate-last job delivered while the
\* engine is Generating (a full regeneration or a historic load started
\* after the job) leaves the series as it is and emits nothing.
C33_LateTrailingResultIgnored ==
    [][(last'.act \in {"callback_add", "callback_update"} /\ Generating)
         => /\ df' = df /\ xdata' = xdata /\ data' = data
            /\ emitted' = emitted]_vars

\* a job that holds the engine in Generating is in flight
GeneratingJobInFlight ==
    \E j \in 1..Len(jobs) :
        jobs[j].callback \in {"callback_first_gen", "callback_gen_historic_data"}

\* C34: while the engine is Ready no full regeneration and no historic load
\* is in flight: the completion of one of them does not make the engine
\* Ready while another is still outstanding.
C34_ReadyMeansNoGeneratingJob == Ready => ~GeneratingJobInFlight

\* C36: a mutate-last merge leaves the index array as it is: the index of
\* the final row of the series is the same before and after callback_update.
C36_UpdateKeepsIndex ==
    [][(last'.act = "callback_update" /\ emitted' # emitted) => xdata' = xdata]_vars

\* C37: whenever the engine is Ready, the table get_df returns and the
\* arrays get_data returns have the same number of rows and the same index
\* values in the same order.
C37_TableAndArraysAgree ==
    Ready => /\ Len(RSI_get_df(0)) = Len(get_data(0, 0)[1])
             /\ IndexOf(RSI_get_df(0)) = get_data(0, 0)[1]

\* the signal a step announces its change with
Announces(act) ==
    CASE act = "callback_first_gen" -> "sig_reset_all"
      [] act = "callback_gen_historic_data" -> "sig_add_historic"
      [] act = "callback_add" -> "sig_add_candle"
      [] act = "callback_update" -> "sig_update_candle"
      [] OTHER -> "none"

\* C38: every step that changes the table or an array emits exactly one
\* notification, of the kind of the change and in the step that completes
\* it, and no step emits a notification without changing the series.
C38_EveryChangeAnnounced ==
    [][/\ (<<df, xdata, data>>' # <<df, xdata, data>>)
            => /\ Announces(last'.act) # "none"
               /\ emitted' = [emitted EXCEPT ![Announces(last'.act)] = @ + 1]
       /\ (emitted' # emitted) => (<<df, xdata, data>>' # <<df, xdata, data>>)]_vars

\* C39: a historic-prepend event handled while the table of the series is
\* empty starts a computation over no candle row, which has no result, and
\* the completion of a historic load without a result adds no row to the
\* series and emits nothing.
C39_HistoricOnEmptyAddsNothing ==
    [][/\ (last'.act = "add_historic_process" /\ df = <<>>)
            => (Len(jobs') = Len(jobs) + 1 /\ NewJob.result = calculate(<<>>))
       /\ (last'.act = "callback_gen_historic_data" /\ DoneJob.result = calculate(<<>>))
            => (df' = df /\ xdata' = xdata /\ data' = data /\ emitted' = emitted)]_vars

\* C39 witness: a historic load started on an empty table has completed
\* with the series still empty, over a table that has the rows for a result
C39_Witness ==
    /\ last.act = "callback_gen_historic_data"
    /\ df = <<>> /\ xdata = <<>>
    /\ emitted["sig_add_historic"] = 0
    /\ Len(candles) >= 3

(***************************************************************************)
(* Progress, checked under SpecFair.                                       *)
(***************************************************************************)
\* a full regeneration whose computation succeeds is under way: its handler
\* waits in the pool over a table calculate accepts, or its job is in flight
\* with a result
RegenSucceeding ==
    \/ \E i \in 1..Len(pool) : pool[i].op = "fisrt_gen_data" /\ calculate(candles).ok
    \/ \E j \in 1..Len(jobs) : jobs[j].callback = "callback_first_gen" /\ jobs[j].result.ok

\* C26: under fair scheduling of the pool and of the callbacks, a reset whose
\* computation succeeds leads to the engine being Ready with a reset
\* notification emitted after it.
C26_ResetEventuallyReady ==
    \A n \in 0..MaxEvents :
        (RegenSucceeding /\ emitted["sig_reset_all"] = n)
            ~> (Ready /\ emitted["sig_reset_all"] > n)

\* C26 witness: two resets have been answered, nothing is left to run, and
\* the engine is Ready
C26_Witness ==
    /\ pool = <<>> /\ jobs = <<>>
    /\ Ready
    /\ emitted["sig_reset_all"] = 2

(***************************************************************************)
(* Claims about the parameters, checked under SpecParams.                  *)
(***************************************************************************)
\* C21: a job whose calculation gave no row (the slice is shorter than the
\* warm-up) is a no-op for the series: its completion leaves the table and
\* the arrays as they are and emits no sig_reset_all.
C21_EmptyResultNotMerged ==
    [][(last'.act \in Callbacks /\ DoneJob.result.rows = <<>>)
         => /\ UNCHANGED <<df, xdata, data>>
            /\ emitted'["sig_reset_all"] = emitted["sig_reset_all"]]_vars

\* the trailing rows an engine constructed with the default period reads
DefaultWindow == DefaultLength * 5

\* C23: an engine constructed with a period that is not positive behaves as
\* one constructed with the default period: add and update read the same
\* trailing rows and start the same calculation, and the full regeneration
\* reads the whole table.
C23_InvalidPeriodAsDefault ==
    [][/\ (self_length <= 0 /\ last'.act \in {"add_process", "update_process"})
            => /\ get_df(window) = get_df(DefaultWindow)
               /\ Last(jobs').result = calculate(get_df(DefaultWindow))
       /\ (self_length <= 0 /\ last'.act = "fisrt_gen_data_process")
            => Last(jobs').result = calculate(candles)]_vars

\* C30: when the computation of a trailing-window job (append or
\* mutate-last) fails or yields no rows, the engine stays as it was: table
\* and arrays unchanged, and row for row the same if they were, nothing emitted,
\* Ready if it was Ready, and the handlers waiting in the pool still there
\* to be run.
C30_TrailingFaultAbsorbed ==
    [][(/\ last'.act \in {"callback_add", "callback_update"}
        /\ (~DoneJob.result.ok \/ DoneJob.result.rows = <<>>))
         => /\ df' = df /\ xdata' = xdata /\ data' = data
            /\ (IndexOf(df) = xdata /\ DataOf(df) = data)
                  => (IndexOf(df') = xdata' /\ DataOf(df') = data')
            /\ emitted' = emitted
            /\ first_gen' = first_gen /\ is_genering' = is_genering
            /\ (Ready => Ready')
            /\ pool' = pool]_vars

\* C30 witness: an append for a table of two rows, too short for a row of
\* the result, has completed: nothing was emitted, the engine is Ready and a
\* later event waits to be handled
C30_Witness ==
    /\ last.act = "callback_add"
    /\ emitted["sig_add_candle"] = 0
    /\ Len(candles) = 2
    /\ Ready
    /\ pool # <<>>

(***************************************************************************)
(* Claims about subscription, checked under SpecSubscribe.                 *)
(***************************************************************************)
\* C24: subscribing and unsubscribing are idempotent: disconnect_signals on
\* an engine that is not connected changes nothing, after a disconnect no
\* connection to the source is left, after connect_signals there is exactly
\* one, and one signal of the source runs a handler at most once.
C24_SubscriptionIdempotent ==
    [][/\ (last'.act = "disconnect_signals" /\ connected[bound_to] = 0)
            => connected' = connected
       /\ last'.act = "disconnect_signals" => connected'[bound_to] = 0
       /\ last'.act = "connect_signals" => connected'[bound_to] = 1
       /\ last'.act \in {"SigReset", "SigAppend"}
            => Len(pool') <= Len(pool) + 1]_vars

(***************************************************************************)
(* Trailing window of the bindings.  Each binding reads a fixed number of  *)
(* trailing candle rows for an append or a mutate-last, and its            *)
(* calculation function gives up (v_series returns None) on fewer rows     *)
(* than its minimum.  SpecWindow draws the binding and its periods and     *)
(* runs the two handlers on an engine that is Ready over a long table.     *)
(***************************************************************************)
Periods == 1..MaxPeriod

\* dict_ta_params of the five bindings, periods only
BindingParams ==
    [binding : {"RSI", "CCI", "KC"}, length : Periods]
        \cup [binding : {"STOCHRSI"}, period : Periods, rsi_period : Periods]
        \cup [binding : {"MACD"}, fast_period : Periods, slow_period : Periods,
              signal_period : Periods]

\* the argument of self._candles.get_df(...) in add and update
trailing_window(p) ==
    CASE p.binding \in {"RSI", "CCI"} -> p.length * 5
      [] p.binding = "STOCHRSI" -> p.rsi_period * 5
      [] p.binding = "MACD" -> p.slow_period * 5
      [] p.binding = "KC" -> p.length + 5

\* the minimum the calculation function hands to v_series: rsi() length + 1,
\* cci() length, kc() length + 1, stochrsi() length + rsi_length + 2, macd()
\* slow + signal - 1 after fast and slow are swapped when slow < fast
v_series_length(p) ==
    CASE p.binding = "RSI" -> p.length + 1
      [] p.binding = "CCI" -> p.length
      [] p.binding = "KC" -> p.length + 1
      [] p.binding = "STOCHRSI" -> p.period + p.rsi_period + 2
      [] p.binding = "MACD" ->
           (IF p.slow_period < p.fast_period THEN p.fast_period ELSE p.slow_period)
               + p.signal_period - 1

\* a candle table longer than every trailing window
TableRows == 5 * MaxPeriod + 5

\* an engine of any binding, Ready over a table of TableRows rows
InitWindow ==
    /\ dict_ta_params \in BindingParams
    /\ candles = NewTable(TableRows)
    /\ nevents = 0
    /\ pool = <<>>
    /\ jobs = <<>>
    /\ first_gen = TRUE
    /\ is_genering = FALSE
    /\ is_current_update = FALSE
    /\ is_histocric_load = FALSE
    /\ df = <<>> /\ xdata = <<>> /\ data = <<>>
    /\ macd_data = <<>> /\ histogram = <<>> /\ signalma = <<>>
    /\ emitted = [s \in Signals |-> 0]
    /\ historic_arg = 0
    /\ bound_to = 1
    /\ connected = [s \in Sources |-> IF s = 1 THEN 1 ELSE 0]
    /\ previous = <<>>
    /\ rebinds = 0
    /\ fresh = [valid |-> FALSE, rows |-> <<>>, src |-> 0, stuck |-> FALSE]
    /\ last = [act |-> "__init__", i |-> 0]

\* add / update of the binding: the trailing rows are read and the job over
\* them is started; the job has a result when the calculation function
\* accepts the number of rows
trailing_job(op, callback) ==
    /\ Guard
    /\ nevents < 1
    /\ nevents' = nevents + 1
    /\ LET slice == Tail_(candles, trailing_window(dict_ta_params))
       IN jobs' = Append(jobs, [callback |-> callback,
                                result |-> [ok |-> Len(slice) >= v_series_length(dict_ta_params),
                                            rows |-> <<>>],
                                arg |-> Last(candles).index,
                                snap |-> Last(slice).index,
                                src |-> bound_to, overtaken |-> FALSE])
    /\ Did(op, 0)
    /\ UNCHANGED <<candles, pool, engine, fresh>>

Window_add == trailing_job("add_process", "callback_add")

Window_update == trailing_job("update_process", "callback_update")

NextWindow ==
    \/ Window_add
    \/ Window_update

SpecWindow == InitWindow /\ [][NextWindow]_vars

\* C32: for every binding and every valid set of periods, the trailing
\* window read for an append or a mutate-last has at least the rows the
\* calculation function needs: the job started has a result.
C32_WindowCoversWarmup ==
    \A j \in 1..Len(jobs) :
        jobs[j].callback \in {"callback_add", "callback_update"} => jobs[j].result.ok

(***************************************************************************)
(* change_input while the source resets and prepends history.              *)
(***************************************************************************)
NextReinput ==
    \/ SrcReset
    \/ SrcHistoric
    \/ \E i \in 1..Len(pool) : fisrt_gen_data(i)
    \/ \E i \in 1..Len(pool) : fisrt_gen_data_process(i)
    \/ \E i \in 1..Len(pool) : add_historic(i)
    \/ \E i \in 1..Len(pool) : add_historic_process(i)
    \/ \E j \in 1..Len(jobs) : callback_first_gen(j)
    \/ \E j \in 1..Len(jobs) : callback_gen_historic_data(j)
    \/ \E X \in Sources \cup {0} : change_input(X)

SpecReinput == Init /\ [][NextReinput]_vars

\* C35: first_gen is false at construction and after change_input, and
\* only the successful completion of a full regeneration makes it true:
\* the completion of a historic load never does.
C35_FirstGenOnlyByRegeneration ==
    [][(~first_gen /\ first_gen') => last'.act = "callback_first_gen"]_vars

(***************************************************************************)
(* Claims about rebinding, checked under SpecRebind.                       *)
(***************************************************************************)
Rebindings == {"change_source", "change_input"}

PrevSrcEvents == {"PrevSrcReset", "PrevSrcAppend", "PrevSrcUpdate", "PrevSrcHistoric"}

\* C14: change_input and change_source leave the engine Generating with a
\* full regeneration submitted, and an append or mutate-last is serviced
\* only against a series regenerated from the source now bound.
C14_RebindingForcesRegeneration ==
    [][/\ last'.act \in Rebindings => (is_genering' /\ RegenPending')
       /\ (last'.act \in {"add", "update"} /\ rebinds > 0 /\ Guard)
            => fresh.src = bound_to]_vars

\* C17: after a rebinding the engine is connected to the source now bound
\* and to no other, and an event of the source bound before submits nothing
\* and changes nothing in the engine.
C17_PreviousSourceIgnored ==
    [][/\ last'.act \in Rebindings
            => connected' = [s \in Sources |-> IF s = bound_to' THEN 1 ELSE 0]
       /\ last'.act \in PrevSrcEvents
            => UNCHANGED <<pool, jobs, engine, candles>>]_vars

\* C17 witness: the engine was rebound to the second source and the first
\* one has since appended a row
C17_Witness ==
    /\ last.act = "PrevSrcAppend"
    /\ bound_to = 2
    /\ Len(previous) > Len(NewTable(1))
    /\ connected[1] = 0 /\ connected[2] = 1

(***************************************************************************)
(* Claims about the MACD binding, checked under SpecMACD.                  *)
(***************************************************************************)
\* the handler has made a step of its merge and has steps of it left
MidMergePc == (LoadPc \cup StorePc \cup SetPc) \ {"df_load", "df_set"}

\* the steps of one handler's merge
MergeSteps == {"add_load", "add_store", "update_set"}

\* the steps that evaluate the condition of a handler, set a generation
\* flag, change the series or emit
GuardOrStateSteps ==
    MergeSteps \cup {"add", "update", "fisrt_gen_data", "fisrt_gen_data_process",
                     "add_historic", "callback_first_gen",
                     "callback_gen_historic_data"}

\* C19: merges are serialized: while a handler is in the middle of its merge
\* no other merge, condition check or state change of the instance takes a
\* step.
C19_MergesSerialized ==
    [][\A i \in 1..Len(pool) :
          (pool[i].pc \in MidMergePc /\ last'.act \in GuardOrStateSteps)
              => (last'.act \in MergeSteps /\ last'.i = i)]_vars

\* nothing of the instance is running: no handler in the pool, no job in
\* flight
Quiescent == pool = <<>> /\ jobs = <<>>

\* C3: whenever no handler or callback of the instance is running, every
\* channel array has the length of the index array.
C3_ChannelLengthParity ==
    Quiescent => /\ Len(macd_data) = Len(xdata)
                 /\ Len(histogram) = Len(xdata)
                 /\ Len(signalma) = Len(xdata)

(***************************************************************************)
(* The MACD binding against the generic engine.                            *)
(***************************************************************************)
\* the index of the candle of the event a step serves: the argument of the
\* job a callback completes, or of the task a handler runs
EventCandle == IF last'.act \in Callbacks THEN DoneJob.arg ELSE RanTask.arg

\* the steps that merge the row of an append or a mutate-last event: the
\* callbacks of the generic engine, the inline stores of the MACD binding
TrailingMerges == {"callback_add", "callback_update", "add_store", "update_set"}

\* C40: the generic engine yields the index array the MACD binding yields:
\* whenever the merge of an append or of a mutate-last changes the index
\* array, the last index is then the index of the candle of that event,
\* which is what MACD.add and MACD.update write (new_candle.index).
C40_SameIndexAsMACD ==
    [][(last'.act \in TrailingMerges /\ xdata' # xdata)
         => Last(xdata') = EventCandle]_vars
====
